---- MODULE Spec2Model ----
(***************************************************************************)
(* Views of the enterprise api version 1 endpoint                          *)
(* (enterprise/api/v1/views.py) as a state machine.  One request is        *)
(* handled at a time: it is received, passes the framework's initial()     *)
(* (permissions, throttle), runs its handler and leaves a response.  The   *)
(* events of the request in progress (storage queries, object permission   *)
(* checks, catalog client calls, log entries, serializer and pagination    *)
(* steps, raised exceptions) are kept in `trace`, in the order of the      *)
(* statements that produce them.                                           *)
(***************************************************************************)
EXTENDS Integers, Sequences, FiniteSets, TLC

VARIABLES db, mount, request, pc, trace, response, served

vars == <<db, mount, request, pc, trace, response, served>>

\* ------------------------------------------------------------------ bounds
MaxPk == 3
MaxRequests == 2
MaxCourses == 1
MaxParams == 1

\* ------------------------------------------------------------- vocabulary
None == "None"
NoCatalog == 0

Methods == {"GET", "HEAD", "OPTIONS", "POST", "PUT", "PATCH", "DELETE"}
SAFE_METHODS == {"GET", "HEAD", "OPTIONS"}

EnterpriseReadOnlyModelViewSet ==
    {"EnterpriseCustomerViewSet", "SiteViewSet", "UserViewSet",
     "EnterpriseCustomerBrandingConfigurationViewSet",
     "UserDataSharingConsentAuditViewSet",
     "EnterpriseCustomerEntitlementViewSet"}

EnterpriseReadWriteModelViewSet ==
    {"EnterpriseCourseEnrollmentViewSet", "EnterpriseCustomerUserViewSet"}

EnterpriseModelViewSet ==
    EnterpriseReadOnlyModelViewSet \cup EnterpriseReadWriteModelViewSet

ViewSets == EnterpriseModelViewSet \cup {"EnterpriseCatalogViewSet"}

\* The model each model view set's queryset is drawn from.
Model(viewset) ==
    CASE viewset = "EnterpriseCustomerViewSet" -> "EnterpriseCustomer"
      [] viewset = "EnterpriseCourseEnrollmentViewSet" -> "EnterpriseCourseEnrollment"
      [] viewset = "SiteViewSet" -> "Site"
      [] viewset = "UserViewSet" -> "User"
      [] viewset = "EnterpriseCustomerUserViewSet" -> "EnterpriseCustomerUser"
      [] viewset = "EnterpriseCustomerBrandingConfigurationViewSet"
            -> "EnterpriseCustomerBrandingConfiguration"
      [] viewset = "UserDataSharingConsentAuditViewSet" -> "UserDataSharingConsentAudit"
      [] viewset = "EnterpriseCustomerEntitlementViewSet" -> "EnterpriseCustomerEntitlement"

Models == {Model(v) : v \in EnterpriseModelViewSet}
ReadOnlyModels == {Model(v) : v \in EnterpriseReadOnlyModelViewSet}

\* Routes of a view set: the collection, one object, and the detail routes.
Routes(viewset) ==
    {"list", "detail"}
      \cup (IF viewset \in {"EnterpriseCustomerViewSet", "EnterpriseCatalogViewSet"}
            THEN {"courses"} ELSE {})
      \cup (IF viewset = "EnterpriseCustomerUserViewSet" THEN {"entitlements"} ELSE {})

\* ------------------------------------------------------------ the callers
AnonymousUser == [id |-> 0, username |-> "", is_authenticated |-> FALSE,
                  is_staff |-> FALSE, is_service |-> FALSE]
Learner == [id |-> 1, username |-> "learner", is_authenticated |-> TRUE,
            is_staff |-> FALSE, is_service |-> FALSE]
ServiceUser == [id |-> 2, username |-> "service", is_authenticated |-> TRUE,
                is_staff |-> FALSE, is_service |-> TRUE]
StaffUser == [id |-> 3, username |-> "staff", is_authenticated |-> TRUE,
              is_staff |-> TRUE, is_service |-> FALSE]
Callers == {AnonymousUser, Learner, ServiceUser, StaffUser}
UserIds == {u.id : u \in Callers \ {AnonymousUser}}

\* ------------------------------------------------------- query parameters
ParamPairs == {<<"page", "2">>, <<"limit", "1">>}

RECURSIVE ParamLists(_)
ParamLists(n) ==
    IF n = 0 THEN {<<>>}
    ELSE ParamLists(n - 1)
           \cup {Append(l, p) : l \in {x \in ParamLists(n - 1) : Len(x) = n - 1},
                                p \in ParamPairs}

QueryParams == ParamLists(MaxParams)

RECURSIVE urlencode(_)
urlencode(params) ==
    IF params = <<>> THEN ""
    ELSE LET rest == urlencode(Tail(params))
         IN  Head(params)[1] \o "=" \o Head(params)[2]
               \o (IF rest = "" THEN "" ELSE "&" \o rest)

\* ---------------------------------------------------------------- events
Event(ev, arg) == [ev |-> ev, arg |-> arg]

Events(t, ev) == {i \in 1..Len(t) : t[i].ev = ev}

Has(t, ev) == Events(t, ev) # {}

\* ------------------------------------------------------------- responses
NoBody == [kind |-> "none"]
NoResponse == [status |-> 0, exc |-> None, body |-> NoBody]
Raise(status, exc, detail) ==
    [status |-> status, exc |-> exc, body |-> [kind |-> "error", detail |-> detail]]
Response(data) == [status |-> 200, exc |-> None, body |-> data]

NoRequest == [viewset |-> None, route |-> None, method |-> None,
              user |-> AnonymousUser, pk |-> 0, GET |-> <<>>]

\* ---------------------------------------------------------------- storage
Get(model, pk) == CHOOSE r \in db[model] : r.pk = pk
Exists(model, pk) == \E r \in db[model] : r.pk = pk

InitialDb ==
    [m \in Models |->
       CASE m = "EnterpriseCustomer" ->
              {[pk |-> 1, name |-> "Acme", catalog |-> 1, active |-> TRUE,
                enforce_data_sharing_consent |-> "at_login"],
               [pk |-> 2, name |-> "Globex", catalog |-> NoCatalog, active |-> TRUE,
                enforce_data_sharing_consent |-> "optional"]}
         [] m = "EnterpriseCustomerUser" ->
              {[pk |-> 1, user_id |-> 1, enterprise_customer |-> 1]}
         [] m = "EnterpriseCourseEnrollment" ->
              {[pk |-> 1, enterprise_customer_user |-> 1, consent_granted |-> TRUE]}
         [] m = "Site" -> {[pk |-> 1, domain |-> "example.com"]}
         [] m = "User" -> {[pk |-> i, is_active |-> TRUE] : i \in UserIds}
         [] m = "EnterpriseCustomerBrandingConfiguration" ->
              {[pk |-> 1, enterprise_customer |-> 1]}
         [] m = "UserDataSharingConsentAudit" ->
              {[pk |-> 1, user |-> 1, state |-> "enabled"]}
         [] m = "EnterpriseCustomerEntitlement" ->
              {[pk |-> 1, enterprise_customer |-> 1, entitlement_id |-> 11],
               [pk |-> 2, enterprise_customer |-> 2, entitlement_id |-> 22]}]

Mounts == {"", "/enterprise/api/v1"}

Init ==
    /\ db = InitialDb
    /\ mount \in Mounts
    /\ request = NoRequest
    /\ pc = "idle"
    /\ trace = <<>>
    /\ response = NoResponse
    /\ served = 0

\* ------------------------------------------------------------------ paths
\* The router's prefix of each view set.
url_prefix(viewset) ==
    CASE viewset = "EnterpriseCustomerViewSet" -> "enterprise-customers"
      [] viewset = "EnterpriseCatalogViewSet" -> "catalogs"
      [] OTHER -> Model(viewset)

path(req) ==
    LET base == mount \o "/" \o url_prefix(req.viewset) \o "/"
    IN  IF req.route = "list" THEN base
        ELSE IF req.route = "detail" THEN base \o ToString(req.pk) \o "/"
        ELSE base \o ToString(req.pk) \o "/" \o req.route \o "/"

get_full_path(req) ==
    path(req) \o (IF req.GET = <<>> THEN "" ELSE "?" \o urlencode(req.GET))

\* A log message or error text is the sequence of its parts: the literal
\* text of the format string and the values formatted into it.
Contains(msg, part) == \E i \in 1..Len(msg) : msg[i] = part

\* --------------------------------------------------------------- dispatch
\* Which generic view set a view set class extends.
ViewSetBaseAllWritable(viewset) ==
    IF viewset \in EnterpriseModelViewSet THEN "ModelViewSet" ELSE "ViewSet"

ViewSetBase(viewset) ==
    IF viewset \in EnterpriseReadOnlyModelViewSet THEN "ReadOnlyModelViewSet"
    ELSE IF viewset \in EnterpriseReadWriteModelViewSet THEN "ModelViewSet"
    ELSE "ViewSet"

\* The handlers bound to the methods of a route.
action_map(viewset, route) ==
    IF route \in {"courses", "entitlements"} THEN [GET |-> route]
    ELSE IF ViewSetBase(viewset) = "ModelViewSet"
    THEN IF route = "list" THEN [GET |-> "list", POST |-> "create"]
         ELSE [GET |-> "retrieve", PUT |-> "update", PATCH |-> "partial_update",
               DELETE |-> "destroy"]
    ELSE IF route = "list" THEN [GET |-> "list"] ELSE [GET |-> "retrieve"]

\* The handler of a request; None stands for http_method_not_allowed.
Handler(req) ==
    LET actions == action_map(req.viewset, req.route)
        m == IF req.method = "HEAD" THEN "GET" ELSE req.method
    IN  IF req.method = "OPTIONS" THEN "options"
        ELSE IF m \in DOMAIN actions THEN actions[m] ELSE None

\* ------------------------------------------------------------ permissions
permission_classes_courses_unauthenticated(viewset, route) ==
    IF viewset = "EnterpriseCustomerViewSet" /\ route = "courses"
    THEN <<"IsServiceUserOrReadOnly", "IsStaffUserOrLinkedToEnterprise">>
    ELSE IF viewset \in EnterpriseReadWriteModelViewSet
    THEN <<"IsAuthenticated", "IsServiceUserOrReadOnly">>
    ELSE <<"IsAuthenticated">>

permission_classes_read_write_base_only(viewset, route) ==
    IF viewset = "EnterpriseCustomerViewSet" /\ route = "courses"
    THEN <<"IsAuthenticated", "IsServiceUserOrReadOnly", "IsStaffUserOrLinkedToEnterprise">>
    ELSE <<"IsAuthenticated">>

\* The permission classes in force on a route: the detail route's own where
\* its decorator gives them, the class's otherwise.
permission_classes(viewset, route) ==
    IF viewset = "EnterpriseCustomerViewSet" /\ route = "courses"
    THEN <<"IsAuthenticated", "IsServiceUserOrReadOnly", "IsStaffUserOrLinkedToEnterprise">>
    ELSE IF viewset \in EnterpriseReadWriteModelViewSet
    THEN <<"IsAuthenticated", "IsServiceUserOrReadOnly">>
    ELSE <<"IsAuthenticated">>

\* The user a stored record belongs to (0: the record belongs to no user).
Owner(model, record) ==
    CASE model = "EnterpriseCustomerUser" -> record.user_id
      [] model = "EnterpriseCourseEnrollment" ->
           IF Exists("EnterpriseCustomerUser", record.enterprise_customer_user)
           THEN Get("EnterpriseCustomerUser", record.enterprise_customer_user).user_id
           ELSE 0
      [] OTHER -> 0

IsOwner(req) ==
    /\ req.user.is_authenticated
    /\ req.viewset \in EnterpriseModelViewSet
    /\ req.route # "list"
    /\ Exists(Model(req.viewset), req.pk)
    /\ Owner(Model(req.viewset), Get(Model(req.viewset), req.pk)) = req.user.id

IsAuthenticated(req) == req.user.is_authenticated

IsServiceUserOrReadOnly(req) ==
    \/ req.method \in SAFE_METHODS
    \/ req.user.is_service
    \/ IsOwner(req)

IsStaffUserOrLinkedToEnterprise(req, enterprise_customer) ==
    \/ req.user.is_staff
    \/ \E ecu \in db["EnterpriseCustomerUser"] :
          /\ ecu.user_id = req.user.id
          /\ ecu.enterprise_customer = enterprise_customer.pk

has_permission(permission, req) ==
    CASE permission = "IsAuthenticated" -> IsAuthenticated(req)
      [] permission = "IsServiceUserOrReadOnly" -> IsServiceUserOrReadOnly(req)
      [] OTHER -> TRUE

has_object_permission(permission, req, obj) ==
    CASE permission = "IsStaffUserOrLinkedToEnterprise" ->
           IsStaffUserOrLinkedToEnterprise(req, obj)
      [] OTHER -> TRUE

check_permissions(req) ==
    LET classes == permission_classes(req.viewset, req.route)
    IN  \A i \in 1..Len(classes) : has_permission(classes[i], req)

check_object_permissions(req, obj) ==
    LET classes == permission_classes(req.viewset, req.route)
    IN  \A i \in 1..Len(classes) : has_object_permission(classes[i], req, obj)

permission_denied(req) ==
    IF req.user.is_authenticated
    THEN Raise(403, "PermissionDenied", <<"You do not have permission to perform this action.">>)
    ELSE Raise(401, "NotAuthenticated", <<"Authentication credentials were not provided.">>)

\* --------------------------------------------------------------- requests
Requests ==
    {[viewset |-> v, route |-> r, method |-> m, user |-> u, pk |-> k, GET |-> q] :
        v \in ViewSets, r \in {"list", "detail", "courses", "entitlements"},
        m \in Methods, u \in Callers, k \in 0..MaxPk, q \in QueryParams}

\* The requests the router delivers: a route of the view set, a key on the
\* routes of one object, query parameters where the handler reads them.
Routed(req) ==
    /\ req.route \in Routes(req.viewset)
    /\ (req.route = "list") = (req.pk = 0)
    /\ \/ req.GET = <<>>
       \/ req.viewset = "EnterpriseCatalogViewSet" /\ req.route # "detail"
       \/ req.route = "courses"

Receive ==
    /\ pc = "idle"
    /\ served < MaxRequests
    /\ \E req \in Requests :
          /\ Routed(req)
          /\ request' = req
    /\ pc' = "initial"
    /\ trace' = <<>>
    /\ response' = NoResponse
    /\ served' = served + 1
    /\ UNCHANGED <<db, mount>>

\* initial() of the framework's dispatch: permissions, then the throttle;
\* the handler is looked up after it.
initial ==
    /\ pc = "initial"
    /\ \E throttled \in BOOLEAN :
          IF ~check_permissions(request)
          THEN response' = permission_denied(request) /\ pc' = "done"
          ELSE IF throttled
          THEN response' = Raise(429, "Throttled", <<"Request was throttled.">>)
               /\ pc' = "done"
          ELSE IF Handler(request) = None
          THEN response' = Raise(405, "MethodNotAllowed", <<"Method not allowed.">>)
               /\ pc' = "done"
          ELSE response' = response /\ pc' = "handler"
    /\ UNCHANGED <<db, mount, request, trace, served>>

\* ----------------------------------------------------- the catalog service
\* What a call of the course catalog client returns: None, an empty
\* mapping, or a payload (a page of results, or one catalog).
Payload(kind, n, next) ==
    [kind |-> kind, count |-> n, next |-> next, previous |-> None,
     results |-> [i \in 1..n |-> [key |-> i]]]

PaginatedResults ==
    {Payload("None", 0, None), Payload("{}", 0, None)}
      \cup {Payload("page", n, nx) : n \in 0..MaxCourses, nx \in {None, "page=2"}}

CatalogResults(pk) ==
    {Payload("None", 0, None), Payload("{}", 0, None),
     [Payload("catalog", 1, None) EXCEPT !.results = <<[key |-> pk]>>]}

\* Python's `not x` on what the client returns.
not_is_none_only(payload) == payload.kind = "None"

not_(payload) == payload.kind \in {"None", "{}"}

\* ------------------------------------------------------------ serializers
serializer_class(viewset) ==
    CASE viewset = "EnterpriseCustomerViewSet" -> "EnterpriseCustomerSerializer"
      [] viewset = "SiteViewSet" -> "SiteSerializer"
      [] viewset = "UserViewSet" -> "UserSerializer"
      [] viewset = "EnterpriseCustomerBrandingConfigurationViewSet"
            -> "EnterpriseCustomerBrandingConfigurationSerializer"
      [] viewset = "UserDataSharingConsentAuditViewSet"
            -> "UserDataSharingConsentAuditSerializer"
      [] viewset = "EnterpriseCustomerEntitlementViewSet"
            -> "EnterpriseCustomerEntitlementSerializer"
      [] viewset = "EnterpriseCatalogViewSet" -> "EnterpriseCourseCatalogReadOnlySerializer"

EnterpriseCourseEnrollmentViewSet_get_serializer_class_head(req) ==
    IF req.method \in {"GET", "HEAD"}
    THEN "EnterpriseCourseEnrollmentReadOnlySerializer"
    ELSE "EnterpriseCourseEnrollmentWriteSerializer"

EnterpriseCourseEnrollmentViewSet_get_serializer_class(req) ==
    IF req.method \in {"GET"}
    THEN "EnterpriseCourseEnrollmentReadOnlySerializer"
    ELSE "EnterpriseCourseEnrollmentWriteSerializer"

EnterpriseCustomerUserViewSet_get_serializer_class(req) ==
    IF req.method \in {"GET"}
    THEN "EnterpriseCustomerUserReadOnlySerializer"
    ELSE "EnterpriseCustomerUserWriteSerializer"

get_serializer_class(req) ==
    CASE req.viewset = "EnterpriseCourseEnrollmentViewSet" ->
           EnterpriseCourseEnrollmentViewSet_get_serializer_class(req)
      [] req.viewset = "EnterpriseCustomerUserViewSet" ->
           EnterpriseCustomerUserViewSet_get_serializer_class(req)
      [] OTHER -> serializer_class(req.viewset)

\* update_enterprise_courses: every course of the page gets the context of
\* the enterprise customer and the catalog.
update_enterprise_courses(data, enterprise_customer, catalog_id) ==
    [data EXCEPT !.results =
        [i \in 1..Len(data.results) |->
            [key |-> data.results[i].key,
             enterprise_customer |-> enterprise_customer.pk,
             catalog |-> catalog_id]]]

\* get_paginated_response: count, next, previous and results of the catalog
\* service's page, the links rewritten onto the request's own path.
get_paginated_response(data, req) ==
    Response([kind |-> "paginated",
              count |-> data.count,
              next |-> IF data.next = None THEN None ELSE path(req) \o "?" \o data.next,
              previous |-> IF data.previous = None THEN None
                           ELSE path(req) \o "?" \o data.previous,
              results |-> data.results])

\* ------------------------------------------------------- handler outcomes
Out(t, resp) == [trace |-> t, response |-> resp]

Log(message) == Event("log", [level |-> "error", msg |-> message])

\* logger.error(...) and then raise NotFound(...).
raise_before_logging(t, log_message, error_message) ==
    Out(t \o <<Event("raise", "NotFound"), Log(log_message)>>,
        Raise(404, "NotFound", error_message))

NotFound(t, log_message, error_message) ==
    Out(t \o <<Log(log_message), Event("raise", "NotFound")>>,
        Raise(404, "NotFound", error_message))

\* The records a view set's queryset holds.
queryset(viewset) ==
    IF viewset = "EnterpriseCustomerViewSet"
    THEN {r \in db[Model(viewset)] : r.active}
    ELSE db[Model(viewset)]

\* What the filter backends may leave of a queryset.  OrderingFilter and
\* DjangoFilterBackend leave all of it to a request without their
\* parameters; EnterpriseCustomerUserFilterBackend may narrow it.
Narrowings(viewset) ==
    IF viewset = "EnterpriseCustomerUserViewSet"
    THEN SUBSET queryset(viewset)
    ELSE {queryset(viewset)}

filter_queryset(viewset, kept) == queryset(viewset) \cap kept

\* get_object(): the lookup by key in the filtered queryset, then the object
\* permissions.
get_object(req, kept) ==
    LET found == {r \in filter_queryset(req.viewset, kept) : r.pk = req.pk}
        t0 == <<Event("query", Model(req.viewset))>>
    IN  IF found = {}
        THEN [ok |-> FALSE,
              out |-> Out(t0 \o <<Event("raise", "Http404")>>,
                          Raise(404, "Http404", <<"Not found.">>))]
        ELSE LET obj == CHOOSE r \in found : TRUE
                 t1 == t0 \o <<Event("check_object_permissions", req.pk)>>
             IN  IF ~check_object_permissions(req, obj)
                 THEN [ok |-> FALSE,
                       out |-> Out(t1 \o <<Event("raise", "PermissionDenied")>>,
                                   permission_denied(req))]
                 ELSE [ok |-> TRUE, out |-> Out(t1, NoResponse)]

\* CourseCatalogApiClient(request.user), and the one call made of it.
ApiCall(req, fn, catalog_id, params, result) ==
    <<Event("CourseCatalogApiClient", req.user.id),
      Event("api_call", [fn |-> fn, catalog |-> catalog_id, params |-> params]),
      Event("api_return", result)>>

catalog_api_dropping_params(req, fn, catalog_id, params, result) ==
    ApiCall(req, fn, catalog_id, <<>>, result)

catalog_api_retrying(req, fn, catalog_id, params, result) ==
    IF not_(result)
    THEN ApiCall(req, fn, catalog_id, params, result)
           \o Tail(ApiCall(req, fn, catalog_id, params, result))
    ELSE ApiCall(req, fn, catalog_id, params, result)

catalog_api(req, fn, catalog_id, params, result) ==
    ApiCall(req, fn, catalog_id, params, result)

\* The serializer over the courses, update_enterprise_courses on it, and the
\* paginated response of its data.
courses_response(t, req, courses, enterprise_customer, catalog_id) ==
    Out(t \o <<Event("serializer", "EnterpriseCatalogCoursesReadOnlySerializer"),
               Event("update_enterprise_courses",
                     [enterprise_customer |-> enterprise_customer.pk,
                      catalog |-> catalog_id]),
               Event("get_paginated_response", get_full_path(req))>>,
        get_paginated_response(
            update_enterprise_courses(courses, enterprise_customer, catalog_id), req))

\* ------------------------------------------ EnterpriseCustomerViewSet.courses
no_catalog_message(enterprise_customer, req) ==
    <<"No catalog is associated with Enterprise ", enterprise_customer.name,
      " from endpoint '", get_full_path(req), "'.">>

no_courses_message(enterprise_customer, req) ==
    <<"Unable to fetch API response for catalog courses for Enterprise ",
      enterprise_customer.name, " from endpoint '", get_full_path(req), "'.">>

has_catalog_always(enterprise_customer) == TRUE

has_catalog(enterprise_customer) == enterprise_customer.catalog # NoCatalog

EnterpriseCustomerViewSet_courses(req, courses) ==
    LET got == get_object(req, queryset(req.viewset))
    IN  IF ~got.ok THEN got.out
        ELSE
        LET enterprise_customer == Get("EnterpriseCustomer", req.pk)
            t1 == got.out.trace \o <<Event("check_object_permissions", req.pk)>>
        IN  IF ~check_object_permissions(req, enterprise_customer)
            THEN Out(t1 \o <<Event("raise", "PermissionDenied")>>, permission_denied(req))
            ELSE IF ~has_catalog(enterprise_customer)
            THEN NotFound(t1, no_catalog_message(enterprise_customer, req),
                          no_catalog_message(enterprise_customer, req))
            ELSE
            LET t2 == t1 \o catalog_api(req, "get_paginated_catalog_courses",
                                        enterprise_customer.catalog, req.GET, courses)
            IN  IF not_(courses)
                THEN NotFound(t2, no_courses_message(enterprise_customer, req),
                              no_courses_message(enterprise_customer, req))
                ELSE courses_response(t2, req, courses, enterprise_customer,
                                      enterprise_customer.catalog)

CustomerCourses ==
    /\ pc = "handler"
    /\ request.viewset = "EnterpriseCustomerViewSet"
    /\ Handler(request) = "courses"
    /\ \E courses \in PaginatedResults :
          LET out == EnterpriseCustomerViewSet_courses(request, courses)
          IN  trace' = out.trace /\ response' = out.response
    /\ pc' = "done"
    /\ UNCHANGED <<db, mount, request, served>>

\* ----------------------------------------------------- EnterpriseCatalogViewSet
resource_missing == <<"The resource you are looking for does not exist.">>

\* The endpoint the message quotes is a part of its own.
list_message == <<"Unable to fetch API response from endpoint \"", "/catalogs/", "\".">>

retrieve_message(pk) ==
    <<"Unable to fetch API response for given catalog from endpoint '",
      "/catalog/" \o ToString(pk) \o "/", "'.">>

catalog_courses_message(req) ==
    <<"Unable to fetch API response for catalog courses from endpoint '",
      get_full_path(req), "'.">>

EnterpriseCatalogViewSet_list(req, catalogs) ==
    LET t == catalog_api(req, "get_paginated_catalogs", NoCatalog, req.GET, catalogs)
    IN  IF not_(catalogs)
        THEN NotFound(t, list_message, resource_missing)
        ELSE Out(t \o <<Event("serializer", "CourseCatalogAPIResponseReadOnlySerializer"),
                        Event("get_paginated_response", get_full_path(req))>>,
                 get_paginated_response(catalogs, req))

EnterpriseCatalogViewSet_retrieve(req, catalog) ==
    LET t == catalog_api(req, "get_catalog", req.pk, <<>>, catalog)
    IN  IF not_(catalog)
        THEN NotFound(t, retrieve_message(req.pk), resource_missing)
        ELSE Out(t \o <<Event("serializer", serializer_class(req.viewset))>>,
                 Response([kind |-> "catalog", serializer |-> serializer_class(req.viewset),
                           data |-> catalog.results]))

\* enterprise_customer_required: the enterprise customer the user is linked
\* to, or none.
enterprise_customers_for_user(user) ==
    {c \in db["EnterpriseCustomer"] :
        \E ecu \in db["EnterpriseCustomerUser"] :
            ecu.user_id = user.id /\ ecu.enterprise_customer = c.pk}

EnterpriseCatalogViewSet_courses(req, courses) ==
    LET t0 == <<Event("enterprise_customer_required", req.user.id)>>
    IN  IF enterprise_customers_for_user(req.user) = {}
        THEN Out(t0 \o <<Event("raise", "PermissionDenied")>>,
                 Raise(403, "PermissionDenied",
                       <<"User ", req.user.username,
                         " is not associated with an EnterpriseCustomer.">>))
        ELSE
        LET enterprise_customer ==
                CHOOSE c \in enterprise_customers_for_user(req.user) :
                    \A d \in enterprise_customers_for_user(req.user) : c.pk <= d.pk
            t1 == t0 \o catalog_api(req, "get_paginated_catalog_courses", req.pk,
                                    req.GET, courses)
        IN  IF not_(courses)
            THEN NotFound(t1, catalog_courses_message(req), resource_missing)
            ELSE courses_response(t1, req, courses, enterprise_customer, req.pk)

CatalogList ==
    /\ pc = "handler"
    /\ request.viewset = "EnterpriseCatalogViewSet"
    /\ Handler(request) = "list"
    /\ \E catalogs \in PaginatedResults :
          LET out == EnterpriseCatalogViewSet_list(request, catalogs)
          IN  trace' = out.trace /\ response' = out.response
    /\ pc' = "done"
    /\ UNCHANGED <<db, mount, request, served>>

CatalogRetrieve ==
    /\ pc = "handler"
    /\ request.viewset = "EnterpriseCatalogViewSet"
    /\ Handler(request) = "retrieve"
    /\ \E catalog \in CatalogResults(request.pk) :
          LET out == EnterpriseCatalogViewSet_retrieve(request, catalog)
          IN  trace' = out.trace /\ response' = out.response
    /\ pc' = "done"
    /\ UNCHANGED <<db, mount, request, served>>

CatalogCourses ==
    /\ pc = "handler"
    /\ request.viewset = "EnterpriseCatalogViewSet"
    /\ Handler(request) = "courses"
    /\ \E courses \in PaginatedResults :
          LET out == EnterpriseCatalogViewSet_courses(request, courses)
          IN  trace' = out.trace /\ response' = out.response
    /\ pc' = "done"
    /\ UNCHANGED <<db, mount, request, served>>

\* ------------------------------------ EnterpriseCustomerUserViewSet.entitlements
\* The entitlements of the learner's enterprise customer, none of them when
\* that customer enforces data sharing consent and the learner gave none.
entitlements(enterprise_customer_user) ==
    LET customer == Get("EnterpriseCustomer", enterprise_customer_user.enterprise_customer)
        consented == \E audit \in db["UserDataSharingConsentAudit"] :
                        /\ audit.user = enterprise_customer_user.pk
                        /\ audit.state = "enabled"
    IN  IF customer.enforce_data_sharing_consent = "at_login" /\ ~consented
        THEN {}
        ELSE {e.entitlement_id : e \in {x \in db["EnterpriseCustomerEntitlement"] :
                                          x.enterprise_customer = customer.pk}}

entitlements_instance_with_user(enterprise_customer_user) ==
    [entitlements |-> entitlements(enterprise_customer_user),
     user |-> {enterprise_customer_user.user_id}]

entitlements_instance(enterprise_customer_user) ==
    [entitlements |-> entitlements(enterprise_customer_user)]

EnterpriseCustomerUserViewSet_entitlements(req, kept) ==
    LET got == get_object(req, kept)
    IN  IF ~got.ok THEN got.out
        ELSE
        LET enterprise_customer_user == Get("EnterpriseCustomerUser", req.pk)
            instance == entitlements_instance(enterprise_customer_user)
        IN  Out(got.out.trace
                  \o <<Event("instance", instance),
                       Event("serializer", "EnterpriseCustomerUserEntitlementSerializer")>>,
                Response([kind |-> "entitlements", data |-> instance]))

Entitlements ==
    /\ pc = "handler"
    /\ request.viewset = "EnterpriseCustomerUserViewSet"
    /\ Handler(request) = "entitlements"
    /\ \E kept \in Narrowings(request.viewset) :
          LET out == EnterpriseCustomerUserViewSet_entitlements(request, kept)
          IN  trace' = out.trace /\ response' = out.response
    /\ pc' = "done"
    /\ UNCHANGED <<db, mount, request, served>>

\* ------------------------------------------- the generic model view sets
\* list(): the queryset through the view set's serializer.
ModelList ==
    /\ pc = "handler"
    /\ request.viewset \in EnterpriseModelViewSet
    /\ Handler(request) = "list"
    /\ trace' = <<Event("query", Model(request.viewset)),
                  Event("serializer", get_serializer_class(request))>>
    /\ \E kept \in Narrowings(request.viewset) :
          response' = Response([kind |-> "list",
                                serializer |-> get_serializer_class(request),
                                data |-> {r.pk : r \in filter_queryset(request.viewset,
                                                                      kept)}])
    /\ pc' = "done"
    /\ UNCHANGED <<db, mount, request, served>>

\* retrieve(): get_object() through the view set's serializer.
ModelRetrieve ==
    /\ pc = "handler"
    /\ request.viewset \in EnterpriseModelViewSet
    /\ Handler(request) = "retrieve"
    /\ \E kept \in Narrowings(request.viewset) :
       LET got == get_object(request, kept)
       IN  IF ~got.ok
           THEN trace' = got.out.trace /\ response' = got.out.response
           ELSE /\ trace' = got.out.trace
                              \o <<Event("serializer", get_serializer_class(request))>>
                /\ response' = Response([kind |-> "object",
                                         serializer |-> get_serializer_class(request),
                                         data |-> {request.pk}])
    /\ pc' = "done"
    /\ UNCHANGED <<db, mount, request, served>>

\* options(): the metadata of the view, with its serializer where it has one.
Options ==
    /\ pc = "handler"
    /\ Handler(request) = "options"
    /\ trace' = IF request.viewset \in EnterpriseModelViewSet
                THEN <<Event("serializer", get_serializer_class(request))>>
                ELSE <<>>
    /\ response' = Response([kind |-> "metadata", data |-> request.viewset])
    /\ pc' = "done"
    /\ UNCHANGED <<db, mount, request, served>>

\* What a write may carry: a record of the model, its key not yet given.
WriteData(model) ==
    CASE model = "EnterpriseCustomerUser" ->
           {[pk |-> 0, user_id |-> u, enterprise_customer |-> c] :
               u \in {Learner.id, StaffUser.id}, c \in {1, MaxPk}}
      [] model = "EnterpriseCourseEnrollment" ->
           {[pk |-> 0, enterprise_customer_user |-> e, consent_granted |-> FALSE] :
               e \in {1, MaxPk}}
      [] OTHER -> {[r EXCEPT !.pk = 0] : r \in db[model]}

\* The write serializers' validation: the foreign keys name stored records.
is_valid(model, data) ==
    CASE model = "EnterpriseCustomerUser" ->
           Exists("EnterpriseCustomer", data.enterprise_customer)
      [] model = "EnterpriseCourseEnrollment" ->
           Exists("EnterpriseCustomerUser", data.enterprise_customer_user)
      [] OTHER -> TRUE

FreePks(model) == {k \in 1..MaxPk : ~Exists(model, k)}

\* Deleting a record deletes the records that refer to it.
Delete(model, pk) ==
    [m \in Models |->
        IF m = model THEN {r \in db[m] : r.pk # pk}
        ELSE IF model = "EnterpriseCustomerUser" /\ m = "EnterpriseCourseEnrollment"
        THEN {r \in db[m] : r.enterprise_customer_user # pk}
        ELSE db[m]]

ValidationError == Raise(400, "ValidationError", <<"Invalid data.">>)

\* create(): the data through the write serializer, a new record if valid.
ModelCreate ==
    /\ pc = "handler"
    /\ request.viewset \in EnterpriseModelViewSet
    /\ Handler(request) = "create"
    /\ FreePks(Model(request.viewset)) # {}
    /\ \E data \in WriteData(Model(request.viewset)) :
          LET model == Model(request.viewset)
              new == CHOOSE k \in FreePks(model) : \A j \in FreePks(model) : k <= j
              t == <<Event("serializer", get_serializer_class(request))>>
          IN  IF ~is_valid(model, data)
              THEN /\ trace' = t \o <<Event("raise", "ValidationError")>>
                   /\ response' = ValidationError
                   /\ db' = db
              ELSE /\ trace' = t \o <<Event("save", model)>>
                   /\ response' = [Response([kind |-> "object",
                                             serializer |-> get_serializer_class(request),
                                             data |-> {new}]) EXCEPT !.status = 201]
                   /\ db' = [db EXCEPT ![model] = @ \cup {[data EXCEPT !.pk = new]}]
    /\ pc' = "done"
    /\ UNCHANGED <<mount, request, served>>

\* update() and partial_update(): get_object(), the data through the write
\* serializer, the record replaced if valid.
ModelUpdate ==
    /\ pc = "handler"
    /\ request.viewset \in EnterpriseModelViewSet
    /\ Handler(request) \in {"update", "partial_update"}
    /\ \E data \in WriteData(Model(request.viewset)),
          kept \in Narrowings(request.viewset) :
          LET model == Model(request.viewset)
              got == get_object(request, kept)
              t == got.out.trace \o <<Event("serializer", get_serializer_class(request))>>
          IN  IF ~got.ok
              THEN trace' = got.out.trace /\ response' = got.out.response /\ db' = db
              ELSE IF ~is_valid(model, data)
              THEN /\ trace' = t \o <<Event("raise", "ValidationError")>>
                   /\ response' = ValidationError
                   /\ db' = db
              ELSE /\ trace' = t \o <<Event("save", model)>>
                   /\ response' = Response([kind |-> "object",
                                            serializer |-> get_serializer_class(request),
                                            data |-> {request.pk}])
                   /\ db' = [db EXCEPT ![model] =
                               {r \in @ : r.pk # request.pk}
                                 \cup {[data EXCEPT !.pk = request.pk]}]
    /\ pc' = "done"
    /\ UNCHANGED <<mount, request, served>>

\* destroy(): get_object(), the record deleted.
ModelDestroy ==
    /\ pc = "handler"
    /\ request.viewset \in EnterpriseModelViewSet
    /\ Handler(request) = "destroy"
    /\ \E kept \in Narrowings(request.viewset) :
       LET got == get_object(request, kept)
       IN  IF ~got.ok
           THEN trace' = got.out.trace /\ response' = got.out.response /\ db' = db
           ELSE /\ trace' = got.out.trace \o <<Event("delete", Model(request.viewset))>>
                /\ response' = [Response(NoBody) EXCEPT !.status = 204]
                /\ db' = Delete(Model(request.viewset), request.pk)
    /\ pc' = "done"
    /\ UNCHANGED <<mount, request, served>>

\* The response leaves; nothing of the request is kept.
Finish ==
    /\ pc = "done"
    /\ pc' = "idle"
    /\ request' = NoRequest
    /\ trace' = <<>>
    /\ response' = NoResponse
    /\ UNCHANGED <<db, mount, served>>

Next ==
    \/ Receive
    \/ initial
    \/ ModelList
    \/ ModelRetrieve
    \/ Options
    \/ ModelCreate
    \/ ModelUpdate
    \/ ModelDestroy
    \/ CustomerCourses
    \/ Entitlements
    \/ CatalogList
    \/ CatalogRetrieve
    \/ CatalogCourses
    \/ Finish

Spec == Init /\ [][Next]_vars

\* ================================================================ claims
Done == pc = "done"

WriteMethods == Methods \ SAFE_METHODS

CustomerCoursesRequest ==
    request.viewset = "EnterpriseCustomerViewSet" /\ request.route = "courses"

\* The handler got its enterprise customer and passed the object permissions.
CustomerResolved ==
    /\ Done
    /\ CustomerCoursesRequest
    /\ Has(trace, "check_object_permissions")
    /\ \A i \in Events(trace, "raise") : trace[i].arg \notin {"Http404", "PermissionDenied"}

EmptyReturn ==
    \E i \in Events(trace, "api_return") : trace[i].arg.kind \in {"None", "{}"}

\* C1: whenever the catalog client returns an empty or falsy payload the
\* request ends in NotFound: never in a success response, and no serializer,
\* reshaping or pagination step runs.
C1_EmptyPayloadIsNotFound ==
    (Done /\ EmptyReturn) =>
        /\ response.exc = "NotFound"
        /\ response.status = 404
        /\ response.body.kind = "error"
        /\ ~Has(trace, "serializer")
        /\ ~Has(trace, "update_enterprise_courses")
        /\ ~Has(trace, "get_paginated_response")

C1_Witness ==
    /\ Done
    /\ request.viewset = "EnterpriseCatalogViewSet"
    /\ request.route = "detail"
    /\ \E i \in Events(trace, "api_return") : trace[i].arg.kind = "{}"
    /\ response.exc = "NotFound"

\* C2: the courses of an enterprise customer without a catalog: NotFound, one
\* error log entry naming the customer and the full request path, written
\* before the error is raised, and the catalog client neither constructed
\* nor called.
C2_NoCatalogIsNotFound ==
    (CustomerResolved /\ Get("EnterpriseCustomer", request.pk).catalog = NoCatalog) =>
        /\ response.exc = "NotFound"
        /\ \E i \in Events(trace, "log") :
              /\ trace[i].arg.level = "error"
              /\ Contains(trace[i].arg.msg, Get("EnterpriseCustomer", request.pk).name)
              /\ Contains(trace[i].arg.msg, get_full_path(request))
              /\ \E j \in Events(trace, "raise") : i < j
              /\ \A j \in Events(trace, "raise") : i < j
        /\ ~Has(trace, "CourseCatalogApiClient")
        /\ ~Has(trace, "api_call")

C2_Witness ==
    /\ CustomerResolved
    /\ Get("EnterpriseCustomer", request.pk).catalog = NoCatalog
    /\ request.GET # <<>>
    /\ response.exc = "NotFound"
    /\ Has(trace, "log")

\* C3: the courses of an enterprise customer with a catalog: one call of
\* get_paginated_catalog_courses with the customer's catalog and exactly the
\* request's query parameters; a non-empty result goes through
\* update_enterprise_courses with that customer and catalog before
\* get_paginated_response, whose response is the one returned.
C3_CoursesOfCatalog ==
    (CustomerResolved /\ Get("EnterpriseCustomer", request.pk).catalog # NoCatalog) =>
        LET customer == Get("EnterpriseCustomer", request.pk)
        IN  /\ Cardinality(Events(trace, "api_call")) = 1
            /\ \A i \in Events(trace, "api_call") :
                  trace[i].arg = [fn |-> "get_paginated_catalog_courses",
                                  catalog |-> customer.catalog,
                                  params |-> request.GET]
            /\ \A r \in Events(trace, "api_return") :
                  trace[r].arg.kind = "page" =>
                      /\ \E u \in Events(trace, "update_enterprise_courses") :
                            /\ trace[u].arg = [enterprise_customer |-> customer.pk,
                                               catalog |-> customer.catalog]
                            /\ r < u
                            /\ \E p \in Events(trace, "get_paginated_response") : u < p
                      /\ response = get_paginated_response(
                                        update_enterprise_courses(trace[r].arg, customer,
                                                                  customer.catalog),
                                        request)

C3_Witness ==
    /\ CustomerResolved
    /\ request.GET # <<>>
    /\ response.status = 200
    /\ response.body.kind = "paginated"
    /\ response.body.count > 0
    /\ Has(trace, "update_enterprise_courses")

\* C4: on every route of every view set the permission classes in force
\* hold IsAuthenticated, the detail routes that give their own included, and
\* an unauthenticated request is denied with no storage query run and no
\* catalog call made.
C4_UnauthenticatedIsDenied ==
    /\ \A v \in ViewSets : \A r \in Routes(v) :
          \E i \in 1..Len(permission_classes(v, r)) :
              permission_classes(v, r)[i] = "IsAuthenticated"
    /\ (pc \in {"handler", "done"} /\ ~request.user.is_authenticated) =>
          /\ Done
          /\ response.status \in {401, 403}
          /\ ~Has(trace, "query")
          /\ ~Has(trace, "enterprise_customer_required")
          /\ ~Has(trace, "CourseCatalogApiClient")
          /\ ~Has(trace, "api_call")

C4_Witness ==
    /\ Done
    /\ ~request.user.is_authenticated
    /\ CustomerCoursesRequest
    /\ request.method = "GET"
    /\ response.exc = "NotAuthenticated"

ReadOnlySerializer(viewset) ==
    IF viewset = "EnterpriseCourseEnrollmentViewSet"
    THEN "EnterpriseCourseEnrollmentReadOnlySerializer"
    ELSE "EnterpriseCustomerUserReadOnlySerializer"

WriteSerializer(viewset) ==
    IF viewset = "EnterpriseCourseEnrollmentViewSet"
    THEN "EnterpriseCourseEnrollmentWriteSerializer"
    ELSE "EnterpriseCustomerUserWriteSerializer"

LogsBeforeRaise ==
    /\ Cardinality(Events(trace, "log")) = 1
    /\ \A i \in Events(trace, "log") :
          /\ trace[i].arg.level = "error"
          /\ \E j \in Events(trace, "raise") : trace[j].arg = "NotFound" /\ i < j
          /\ \A j \in Events(trace, "raise") : i < j

LogContains(part) ==
    \A i \in Events(trace, "log") : Contains(trace[i].arg.msg, part)

LogNamesAnEntity ==
    \E c \in db["EnterpriseCustomer"] : LogContains(c.name)

\* C6 as stated: every NotFound of the module comes after exactly one error
\* log entry of the same request that holds the request's path and the name
\* of the entity concerned.
C6_Original ==
    (Done /\ response.exc = "NotFound") =>
        /\ LogsBeforeRaise
        /\ LogContains(get_full_path(request))
        /\ LogNamesAnEntity

\* C6 as amended: every NotFound of the module comes after exactly one error
\* log entry of the same request.  For the courses of an enterprise customer
\* the entry holds the customer's name and the request's full path; for the
\* courses of a catalog it holds the request's full path and names no
\* entity; for the catalog list it is a fixed text quoting "/catalogs/"; for
\* one catalog it quotes "/catalog/<pk>/" built from the key, and names no
\* entity.
C6_NotFoundIsLogged ==
    (Done /\ response.exc = "NotFound") =>
        /\ LogsBeforeRaise
        /\ CustomerCoursesRequest =>
              /\ LogContains(Get("EnterpriseCustomer", request.pk).name)
              /\ LogContains(get_full_path(request))
        /\ (request.viewset = "EnterpriseCatalogViewSet" /\ request.route = "courses") =>
              /\ LogContains(get_full_path(request))
              /\ ~LogNamesAnEntity
        /\ (request.viewset = "EnterpriseCatalogViewSet" /\ request.route = "list") =>
              /\ \A i \in Events(trace, "log") : trace[i].arg.msg = list_message
              /\ ~LogNamesAnEntity
        /\ (request.viewset = "EnterpriseCatalogViewSet" /\ request.route = "detail") =>
              /\ LogContains("/catalog/" \o ToString(request.pk) \o "/")
              /\ ~LogNamesAnEntity

C6_Witness ==
    /\ Done
    /\ response.exc = "NotFound"
    /\ request.viewset = "EnterpriseCatalogViewSet"
    /\ request.route = "list"
    /\ LogsBeforeRaise
    /\ ~LogContains(get_full_path(request))

ReadWriteRequest ==
    /\ request.viewset \in EnterpriseReadWriteModelViewSet
    /\ request.method \in WriteMethods

MayWrite ==
    /\ request.user.is_authenticated
    /\ request.user.is_service \/ IsOwner(request)

\* C7: on the course enrollment and the customer user resources a POST, PUT,
\* PATCH or DELETE changes stored records only if the caller is
\* authenticated and is a service user or the owner of the object; from any
\* other authenticated caller it is denied, and a denied write leaves the
\* storage as it was.
C7_WritesNeedServiceUserOrOwner ==
    [][/\ (db' # db) => (ReadWriteRequest /\ MayWrite)
       /\ (pc = "initial" /\ ReadWriteRequest /\ ~MayWrite) =>
             /\ pc' = "done"
             /\ response'.status \in {401, 403}
             /\ request.user.is_authenticated => response'.status = 403
             /\ db' = db
       /\ (Done /\ response.status \in {401, 403}) => db' = db]_vars

C7_Witness ==
    /\ Done
    /\ request.viewset = "EnterpriseCustomerUserViewSet"
    /\ request.method = "POST"
    /\ request.user.is_service
    /\ response.status = 201
    /\ db # InitialDb

EntitlementsRequest ==
    /\ request.viewset = "EnterpriseCustomerUserViewSet"
    /\ request.route = "entitlements"
    /\ Handler(request) = "entitlements"

\* C8: the entitlements action answers with the data of a mapping of exactly
\* one key, "entitlements", whose value is the entitlements of the customer
\* user record of the request's key; it makes no catalog call and changes no
\* stored record.
C8_EntitlementsPayload ==
    [][(pc = "handler" /\ EntitlementsRequest) =>
          /\ db' = db
          /\ ~Has(trace', "CourseCatalogApiClient")
          /\ ~Has(trace', "api_call")
          /\ response'.status = 200 =>
                /\ Cardinality(Events(trace', "instance")) = 1
                /\ \A i \in Events(trace', "instance") :
                      /\ DOMAIN trace'[i].arg = {"entitlements"}
                      /\ trace'[i].arg.entitlements =
                            entitlements(Get("EnterpriseCustomerUser", request.pk))
                      /\ response'.body.data = trace'[i].arg]_vars

C8_Witness ==
    /\ Done
    /\ EntitlementsRequest
    /\ response.status = 200
    /\ response.body.kind = "entitlements"
    /\ response.body.data.entitlements # {}

CatalogProxyRequest ==
    \/ CustomerCoursesRequest
    \/ request.viewset = "EnterpriseCatalogViewSet"

\* The place of each step in a catalog proxy operation.
Rank(ev) ==
    CASE ev \in {"query", "check_object_permissions", "enterprise_customer_required"} -> 1
      [] ev = "CourseCatalogApiClient" -> 2
      [] ev = "api_call" -> 3
      [] ev = "api_return" -> 4
      [] ev = "serializer" -> 5
      [] ev = "update_enterprise_courses" -> 6
      [] ev = "get_paginated_response" -> 7
      [] ev = "log" -> 8
      [] ev = "raise" -> 9

\* C9: a catalog proxy request calls the catalog client at most once, never
\* again after an empty result; its steps come in the order resolve the
\* parent (with the object permissions), call the client, test the result,
\* reshape, paginate; a request that fails at a step takes none of the later
\* steps and answers with the error alone.
C9_OneCallInOrder ==
    (Done /\ CatalogProxyRequest) =>
        /\ Cardinality(Events(trace, "CourseCatalogApiClient")) <= 1
        /\ Cardinality(Events(trace, "api_call")) <= 1
        /\ Cardinality(Events(trace, "api_return")) <= 1
        /\ \A i, j \in 1..Len(trace) :
              i < j => /\ Rank(trace[i].ev) <= Rank(trace[j].ev)
                       /\ Rank(trace[i].ev) > 1 => Rank(trace[i].ev) < Rank(trace[j].ev)
        /\ \A i \in Events(trace, "api_call") :
              \E c \in Events(trace, "CourseCatalogApiClient") : c < i
        /\ Has(trace, "raise") =>
              /\ trace[Len(trace)].ev = "raise"
              /\ response.status >= 400
              /\ response.body.kind = "error"
              /\ ~Has(trace, "serializer")
              /\ ~Has(trace, "update_enterprise_courses")
              /\ ~Has(trace, "get_paginated_response")
        /\ response.status < 400 => ~Has(trace, "raise") /\ ~Has(trace, "log")

C9_Witness ==
    /\ Done
    /\ request.viewset = "EnterpriseCatalogViewSet"
    /\ request.route = "courses"
    /\ EmptyReturn
    /\ Cardinality(Events(trace, "api_call")) = 1
    /\ response.exc = "NotFound"

====
